---- MODULE Spec2Model ----
(***************************************************************************)
(* A model of the Grid type of src/src/lib.rs: a flat, row-major buffer of *)
(* characters plus a width, with coordinate access, flood fill, neighbour  *)
(* enumeration and the text rendering / parsing pair.                      *)
(*                                                                         *)
(* Conventions.                                                            *)
(*  - A Rust Vec is a TLA+ sequence; Vec index p (0-based) is element p+1. *)
(*  - Option<T> is a sequence of length at most one: None is << >>,        *)
(*    Some(v) is <<v>>.                                                    *)
(*  - A char is a string naming one Unicode scalar value; Utf8Len gives    *)
(*    the number of bytes of its UTF-8 encoding.  A Rust String is the     *)
(*    sequence of its chars.                                               *)
(*  - All coordinates and sizes of the model are far below 2^31, so the    *)
(*    `as i32` casts of neighbours and the sum of cord_to_pos never wrap;  *)
(*    the one usize operation that can leave its range inside the bounds   *)
(*    is the subtraction `height - 1`, which is modelled with both of its  *)
(*    build-dependent outcomes (panic, or wrap to usize::MAX).             *)
(***************************************************************************)
EXTENDS Integers, Sequences, FiniteSets

\* Bounds of the model.
MaxW == 3
MaxH == 3
MaxTiles == 9
MaxTextW == 2
MaxTextH == 2

\* Tile characters of the main specification (all ASCII).
Chars == {"#", "."}
\* Tile characters of the text specification: ASCII plus one two-byte scalar.
EAcute == "U+00E9"
TextChars == {"#", ".", EAcute}
NewLine == "\n"

\* Arguments the operations are called with: every in-bounds coordinate, the
\* coordinate equal to the dimension, and one beyond it.
XS == 0..(MaxW + 1)
YS == 0..(MaxH + 1)

VARIABLES
    tiles,      \* Grid.tiles
    width,      \* Grid.width
    pc,         \* the caller's position: "idle" before a call, "fill" inside
                \* fill's loop, "done" holding a returned call, "panicked"
    call,       \* the call in progress or just returned: [op, x, y, c]
    ret,        \* what that call returned, in the field of its return type
    frontier,   \* fill's work stack (top is the last element)
    orig,       \* Grid.tiles at the entry of the fill in progress / last completed
    pushes,     \* number of pushes onto frontier during that fill, the first included
    again       \* that fill repeats the fill that returned immediately before it

vars == <<tiles, width, pc, call, ret, frontier, orig, pushes, again>>

None == << >>
Some(v) == <<v>>

Grid(t, w) == [tiles |-> t, width |-> w]
self == Grid(tiles, width)

Call(op, x, y, c) == [op |-> op, x |-> x, y |-> y, c |-> c]

----------------------------------------------------------------------------
(* Pure functions of Grid *)

RECURSIVE Repeat(_, _)
Repeat(v, n) == IF n = 0 THEN << >> ELSE <<v>> \o Repeat(v, n - 1)

filled_with(w, h, fill) == Grid(Repeat(fill, w * h), w)

new(w, h) == filled_with(w, h, "#")

height(g) == Len(g.tiles) \div g.width

\* Fault variant of cord_to_pos: the coordinates exchanged (x * width + y).
cord_to_pos_transposed(g, x, y) ==
    LET pos == x * g.width + y
    IN  IF pos < Len(g.tiles) THEN Some(pos) ELSE None

cord_to_pos(g, x, y) ==
    LET pos == y * g.width + x
    IN  IF pos < Len(g.tiles) THEN Some(pos) ELSE None

get(g, x, y) ==
    LET p == cord_to_pos(g, x, y)
    IN  IF p # None THEN Some(g.tiles[p[1] + 1]) ELSE None

\* set returns the grid after the call and the boolean it returns.
set(g, x, y, new_tile) ==
    LET p == cord_to_pos(g, x, y)
    IN  IF p # None
        THEN [grid |-> Grid([g.tiles EXCEPT ![p[1] + 1] = new_tile], g.width),
              ret |-> TRUE]
        ELSE [grid |-> g, ret |-> FALSE]

count(g, tile) == Cardinality({i \in 1..Len(g.tiles) : g.tiles[i] = tile})

\* `a < n - 1` in usize arithmetic.  For n = 0 the subtraction leaves the
\* range of usize: a build with overflow checks panics there (SubOverflows),
\* a build without them computes usize::MAX, above every a of the model.
\* Fault variant of LtPred: `a < n`, the `- 1` forgotten.
LtPred_inclusive(a, n) == a < n

LtPred(a, n) == IF n = 0 THEN TRUE ELSE a < n - 1

\* neighbours evaluates `width - 1` (line 198) and `height - 1` (line 201)
\* whenever it passes the early return of line 192.
SubOverflows(g, x, y) ==
    /\ ~(x > g.width \/ y > height(g))
    /\ (g.width = 0 \/ height(g) = 0)

Opt(cond, pair) == IF cond THEN <<pair>> ELSE << >>

\* Fault variant of neighbours: the four diagonal pushes missing.
neighbours_orthogonal(g, x, y) ==
    LET h == height(g)
        w == g.width
    IN  IF x > w \/ y > h THEN << >>
        ELSE Opt(y > 0 /\ y < h, <<x, y - 1>>)
          \o Opt(LtPred(x, w), <<x + 1, y>>)
          \o Opt(LtPred(y, h), <<x, y + 1>>)
          \o Opt(x > 0 /\ x < w, <<x - 1, y>>)

\* Fault variant of neighbours: up-right pushed before down-right.
neighbours_swapped(g, x, y) ==
    LET h == height(g)
        w == g.width
    IN  IF x > w \/ y > h THEN << >>
        ELSE Opt(y > 0 /\ y < h, <<x, y - 1>>)
          \o Opt(LtPred(x, w), <<x + 1, y>>)
          \o Opt(LtPred(y, h), <<x, y + 1>>)
          \o Opt(x > 0 /\ x < w, <<x - 1, y>>)
          \o Opt(LtPred(x, w) /\ y > 0 /\ y < h, <<x + 1, y - 1>>)
          \o Opt(LtPred(x, w) /\ LtPred(y, h), <<x + 1, y + 1>>)
          \o Opt(x > 0 /\ y > 0 /\ x < w /\ y < h, <<x - 1, y - 1>>)
          \o Opt(x > 0 /\ x < w /\ LtPred(y, h), <<x - 1, y + 1>>)

neighbours(g, x, y) ==
    LET h == height(g)
        w == g.width
    IN  IF x > w \/ y > h THEN << >>
        ELSE Opt(y > 0 /\ y < h, <<x, y - 1>>)
          \o Opt(LtPred(x, w), <<x + 1, y>>)
          \o Opt(LtPred(y, h), <<x, y + 1>>)
          \o Opt(x > 0 /\ x < w, <<x - 1, y>>)
          \o Opt(LtPred(x, w) /\ LtPred(y, h), <<x + 1, y + 1>>)
          \o Opt(LtPred(x, w) /\ y > 0 /\ y < h, <<x + 1, y - 1>>)
          \o Opt(x > 0 /\ y > 0 /\ x < w /\ y < h, <<x - 1, y - 1>>)
          \o Opt(x > 0 /\ x < w /\ LtPred(y, h), <<x - 1, y + 1>>)

\* Fault variant of ToPush: the test `c != fill` missing.
ToPush_unguarded(g, nb, fill) ==
    SelectSeq(nb, LAMBDA n : get(g, n[1], n[2]) # None)

\* Fault variant of ToPush: the loop left after its first push.
ToPush_first_only(g, nb, fill) ==
    LET all == SelectSeq(nb, LAMBDA n : /\ get(g, n[1], n[2]) # None
                                        /\ get(g, n[1], n[2])[1] # fill)
    IN  IF all = << >> THEN << >> ELSE <<all[1]>>

\* The neighbours the loop body of fill pushes, in order: those that exist
\* and whose current character differs from fill (lines 146-152).
ToPush(g, nb, fill) ==
    SelectSeq(nb, LAMBDA n : /\ get(g, n[1], n[2]) # None
                             /\ get(g, n[1], n[2])[1] # fill)

\* Vec::pop on a non-empty stack: the last element leaves it.
Top(fr) == fr[Len(fr)]

Pop(fr) == SubSeq(fr, 1, Len(fr) - 1)

----------------------------------------------------------------------------
(* Text: Display::fmt and Grid::from *)

Utf8Len(c) == IF c = EAcute THEN 2 ELSE 1

RECURSIVE ByteLen(_)
ByteLen(s) == IF s = << >> THEN 0 ELSE Utf8Len(Head(s)) + ByteLen(Tail(s))

\* [T]::chunks(n), n > 0: consecutive slices of n elements, the last one shorter
\* when the length is no multiple of n.
RECURSIVE chunks(_, _)
chunks(t, n) ==
    IF t = << >> THEN << >>
    ELSE IF Len(t) <= n THEN <<t>>
    ELSE <<SubSeq(t, 1, n)>> \o chunks(SubSeq(t, n + 1, Len(t)), n)

RECURSIVE Concat(_)
Concat(ss) == IF ss = << >> THEN << >> ELSE Head(ss) \o Concat(Tail(ss))

\* Display::fmt: every chunk of width tiles followed by a newline.
fmt(g) == Concat([i \in 1..Len(chunks(g.tiles, g.width)) |->
                    chunks(g.tiles, g.width)[i] \o <<NewLine>>])

\* str::lines: the text split at newlines; a final line needs no newline and
\* nothing follows a final newline.  (A carriage return before a newline would
\* be dropped too; no tile of the model is one.)
RECURSIVE lines(_, _)
lines(s, acc) ==
    IF s = << >> THEN (IF acc = << >> THEN << >> ELSE <<acc>>)
    ELSE IF Head(s) = NewLine THEN <<acc>> \o lines(Tail(s), << >>)
    ELSE lines(Tail(s), Append(acc, Head(s)))

\* Grid::from on a text with at least one line: the chars of all lines in
\* order, and the length of the first line in bytes (str::len).
from(text) == Grid(Concat(lines(text, << >>)), ByteLen(lines(text, << >>)[1]))

----------------------------------------------------------------------------
(* The state machine *)

\* How a call of neighbours(x, y) on g can end: normally when no subtraction
\* leaves the range of usize; otherwise with a panic (overflow checks on, a
\* debug build) or normally on the wrapped value (checks off, a release build).
Outcomes(g, x, y) == IF SubOverflows(g, x, y) THEN {"panic", "wrap"} ELSE {"ok"}

NoCall == Call("none", 0, 0, "")

\* The return value of a call, by return type: Option<char> (get), bool (set),
\* usize (width, height, count), Vec<(usize, usize)> (neighbours), String
\* (to_string).  A call returns in one field; the others stay at rest.
NoRet == [tile |-> None, ok |-> FALSE, n |-> 0, coords |-> << >>, text |-> << >>]

NoFill == /\ frontier' = << >>
          /\ orig' = << >>
          /\ pushes' = 0
          /\ again' = FALSE

Constructed(g) ==
    /\ tiles = g.tiles
    /\ width = g.width
    /\ pc = "idle"
    /\ call = NoCall
    /\ ret = NoRet
    /\ frontier = << >>
    /\ orig = << >>
    /\ pushes = 0
    /\ again = FALSE

\* A grid built by filled_with or by new.
Init ==
    \E w \in 1..MaxW, h \in 0..MaxH, c \in Chars :
        /\ w * h <= MaxTiles
        /\ Constructed(filled_with(w, h, c)) \/ Constructed(new(w, h))

Get(x, y) ==
    /\ pc = "idle"
    /\ pc' = "done"
    /\ call' = Call("get", x, y, "")
    /\ ret' = [NoRet EXCEPT !.tile = get(self, x, y)]
    /\ NoFill
    /\ UNCHANGED <<tiles, width>>

Set(x, y, c) ==
    /\ pc = "idle"
    /\ pc' = "done"
    /\ call' = Call("set", x, y, c)
    /\ tiles' = set(self, x, y, c).grid.tiles
    /\ ret' = [NoRet EXCEPT !.ok = set(self, x, y, c).ret]
    /\ NoFill
    /\ UNCHANGED width

Width ==
    /\ pc = "idle"
    /\ pc' = "done"
    /\ call' = Call("width", 0, 0, "")
    /\ ret' = [NoRet EXCEPT !.n = width]
    /\ NoFill
    /\ UNCHANGED <<tiles, width>>

Height ==
    /\ pc = "idle"
    /\ pc' = "done"
    /\ call' = Call("height", 0, 0, "")
    /\ ret' = [NoRet EXCEPT !.n = height(self)]
    /\ NoFill
    /\ UNCHANGED <<tiles, width>>

Count(c) ==
    /\ pc = "idle"
    /\ pc' = "done"
    /\ call' = Call("count", 0, 0, c)
    /\ ret' = [NoRet EXCEPT !.n = count(self, c)]
    /\ NoFill
    /\ UNCHANGED <<tiles, width>>

Neighbours(x, y) ==
    /\ pc = "idle"
    /\ call' = Call("neighbours", x, y, "")
    /\ \E outcome \in Outcomes(self, x, y) :
           IF outcome = "panic"
           THEN pc' = "panicked" /\ ret' = NoRet
           ELSE /\ pc' = "done"
                /\ ret' = [NoRet EXCEPT !.coords = neighbours(self, x, y)]
    /\ NoFill
    /\ UNCHANGED <<tiles, width>>

\* fill, line 142: the frontier starts as the start coordinate alone.  The
\* call is made on a grid at rest, or again right after the same call returned.
FillBegin(x, y, c) ==
    /\ \/ pc = "idle"
       \/ pc = "done" /\ call = Call("fill", x, y, c)
    /\ pc' = "fill"
    /\ again' = (pc = "done")
    /\ call' = Call("fill", x, y, c)
    /\ ret' = NoRet
    /\ frontier' = <<<<x, y>>>>
    /\ orig' = tiles
    /\ pushes' = 1
    /\ UNCHANGED <<tiles, width>>

\* fill, lines 143-153: one iteration of the loop (pop, set, push the
\* neighbours that differ from fill), and the return when the iteration leaves
\* the frontier empty.
FillStep ==
    /\ pc = "fill"
    /\ \E cur \in {Top(frontier)} :
       \E g1 \in {set(self, cur[1], cur[2], call.c).grid} :
       \E outcome \in Outcomes(g1, cur[1], cur[2]) :
           IF outcome = "panic"
           THEN /\ pc' = "panicked"
                /\ tiles' = g1.tiles
                /\ frontier' = Pop(frontier)
                /\ pushes' = pushes
           ELSE \E nb \in {neighbours(g1, cur[1], cur[2])} :
                \E add \in {ToPush(g1, nb, call.c)} :
                \E rest \in {Pop(frontier)} :
                    /\ pc' = IF rest \o add = << >> THEN "done" ELSE "fill"
                    /\ tiles' = g1.tiles
                    /\ frontier' = rest \o add
                    /\ pushes' = pushes + Len(add)
    /\ UNCHANGED <<width, call, ret, orig, again>>

\* The caller has looked at what the call returned and goes on.
Continue ==
    /\ pc = "done"
    /\ pc' = "idle"
    /\ call' = NoCall
    /\ ret' = NoRet
    /\ NoFill
    /\ UNCHANGED <<tiles, width>>

Next ==
    \/ \E x \in XS, y \in YS : Get(x, y)
    \/ \E x \in XS, y \in YS, c \in Chars : Set(x, y, c)
    \/ Width
    \/ Height
    \/ \E c \in Chars : Count(c)
    \/ \E x \in XS, y \in YS : Neighbours(x, y)
    \/ Continue

\* The access specification: grids built by filled_with, read and written
\* through get, set, width, height, count and neighbours.
Spec == Init /\ [][Next]_vars

----------------------------------------------------------------------------
(* The fill specification: fill called on grids parsed from text *)

\* The rows of a text joined by newlines, as in "#..#\n####".
RECURSIVE JoinRows(_)
JoinRows(rows) ==
    IF Len(rows) = 1 THEN rows[1]
    ELSE rows[1] \o <<NewLine>> \o JoinRows(Tail(rows))

\* A grid built by from on a text of h rows of w characters each, or an
\* empty grid built by filled_with(w, 0, c).
InitFill ==
    \E w \in 1..MaxW :
        \/ \E h \in 1..MaxH :
               /\ w * h <= MaxTiles
               /\ \E rows \in [1..h -> [1..w -> Chars]] :
                      Constructed(from(JoinRows(rows)))
        \/ \E c \in Chars : Constructed(filled_with(w, 0, c))

NextFill ==
    \/ \E x \in XS, y \in YS, c \in Chars : FillBegin(x, y, c)
    \/ FillStep

SpecFill == InitFill /\ [][NextFill]_vars

\* fill is sequential code: once inside the loop, the next iteration runs.
\* Every iteration pops, so it changes the variables of the loop.
loopvars == <<pc, tiles, frontier, pushes>>

FairSpec == SpecFill /\ WF_loopvars(FillStep)

----------------------------------------------------------------------------
(* The text specification: grids over TextChars, rendered and parsed back *)

InitText ==
    \E w \in 1..MaxTextW, h \in 0..MaxTextH, c \in TextChars :
        Constructed(filled_with(w, h, c))

\* Display::fmt through to_string.
ToString ==
    /\ pc = "idle"
    /\ pc' = "done"
    /\ call' = Call("to_string", 0, 0, "")
    /\ ret' = [NoRet EXCEPT !.text = fmt(self)]
    /\ NoFill
    /\ UNCHANGED <<tiles, width>>

\* Grid::from on the text to_string just returned; the unwrap of line 71
\* panics on a text without lines.
From ==
    /\ pc = "done"
    /\ call.op = "to_string"
    /\ call' = Call("from", 0, 0, "")
    /\ ret' = NoRet
    /\ IF lines(ret.text, << >>) = << >>
       THEN pc' = "panicked" /\ UNCHANGED <<tiles, width>>
       ELSE /\ pc' = "done"
            /\ tiles' = from(ret.text).tiles
            /\ width' = from(ret.text).width
    /\ NoFill

NextText ==
    \/ \E x \in 0..MaxTextW, y \in 0..MaxTextH, c \in TextChars : Set(x, y, c)
    \/ ToString
    \/ From
    \/ Continue

SpecText == InitText /\ [][NextText]_vars

----------------------------------------------------------------------------
(* Vocabulary of the properties *)

\* (x, y) lies in the logical width x height rectangle of g.
InBounds(g, x, y) == x < g.width /\ y < height(g)

\* The grids the properties speak of: width >= 1, height >= 1, and a buffer
\* of exactly width * height tiles.
Proper(g) == /\ g.width >= 1
             /\ height(g) >= 1
             /\ Len(g.tiles) = g.width * height(g)

Cells(g) == (0..(g.width - 1)) \X (0..(height(g) - 1))

\* The sequence index of the tile at cell <<x, y>>.
Idx(g, cell) == cell[2] * g.width + cell[1] + 1

Abs(n) == IF n < 0 THEN -n ELSE n

\* Two different cells one 8-directional step apart.
Adjacent(a, b) == /\ a # b
                  /\ Abs(a[1] - b[1]) <= 1
                  /\ Abs(a[2] - b[2]) <= 1

\* The cells reachable from the cells of R by chains of 8-directional steps
\* whose every cell outside R holds, in g, a character different from c.
RECURSIVE Reach(_, _, _)
Reach(g, R, c) ==
    LET more == {u \in Cells(g) \ R :
                    /\ g.tiles[Idx(g, u)] # c
                    /\ \E v \in R : Adjacent(u, v)}
    IN  IF more = {} THEN R ELSE Reach(g, R \cup more, c)

before == Grid(orig, width)
start == <<call.x, call.y>>

\* A call of fill with an in-bounds start has returned on a proper grid.
FillReturned == /\ pc = "done"
                /\ call.op = "fill"
                /\ Proper(before)
                /\ InBounds(before, call.x, call.y)

\* The 8 adjacent positions of (x, y) in the order up, right, down, left,
\* down-right, up-right, up-left, down-left.
Around(x, y) == << <<x, y - 1>>, <<x + 1, y>>, <<x, y + 1>>, <<x - 1, y>>,
                   <<x + 1, y + 1>>, <<x + 1, y - 1>>, <<x - 1, y - 1>>,
                   <<x - 1, y + 1>> >>

----------------------------------------------------------------------------
(* The properties *)

\* C1: after fill(sx, sy, c) with an in-bounds start, a tile holds c iff it
\* held c before, or is the start, or is reachable from the start by a chain
\* of 8-directional steps over tiles that originally differed from c; every
\* other tile keeps its original character.
C1_FillRegion ==
    FillReturned =>
        LET R == Reach(before, {start}, call.c)
        IN  /\ Len(tiles) = Len(orig)
            /\ \A u \in Cells(before) :
                   tiles[Idx(before, u)] =
                       IF u \in R THEN call.c ELSE orig[Idx(before, u)]

\* C1's case: the fill reached tiles beyond the start and left a tile that
\* differs from the fill character.
C1_Witness ==
    /\ FillReturned
    /\ Cardinality(Reach(before, {start}, call.c)) > 1
    /\ tiles # orig
    /\ \E i \in 1..Len(tiles) : tiles[i] # call.c

\* C2 as stated: when the start tile already equals c, fill leaves the whole
\* grid unchanged.
C2_DegenerateUnchanged ==
    (FillReturned /\ orig[Idx(before, start)] = call.c) => tiles = orig

\* C2 as amended: when the start tile already equals c, the start keeps its
\* value, and the grid is unchanged exactly when every in-bounds neighbour of
\* the start also equals c.
C2_DegenerateAmended ==
    (FillReturned /\ orig[Idx(before, start)] = call.c) =>
        /\ tiles[Idx(before, start)] = call.c
        /\ (tiles = orig) <=>
               \A u \in Cells(before) :
                   Adjacent(u, start) => orig[Idx(before, u)] = call.c

\* C2's case: the start already held c, the grid came back unchanged, and
\* tiles that differ from c exist beyond the start's neighbours.
C2_Witness ==
    /\ FillReturned
    /\ orig[Idx(before, start)] = call.c
    /\ tiles = orig
    /\ \E i \in 1..Len(tiles) : tiles[i] # call.c

\* C3: for (x, y) with x >= width or y >= height, get returns None, set
\* returns false and set leaves every tile unchanged.
C3_OutOfBoundsRejected ==
    [][(/\ pc = "idle"
        /\ Proper(self)
        /\ ~InBounds(self, call'.x, call'.y))
       => /\ call'.op = "get" => ret'.tile = None
          /\ call'.op = "set" => (ret'.ok = FALSE /\ tiles' = tiles)]_vars

\* C4: for an in-bounds (x, y), neighbours returns exactly the in-bounds ones
\* of the 8 adjacent positions, each once, in the fixed order.
C4_NeighboursExact ==
    (/\ pc = "done"
     /\ call.op = "neighbours"
     /\ Proper(self)
     /\ InBounds(self, call.x, call.y))
    => ret.coords = SelectSeq(Around(call.x, call.y),
                       LAMBDA n : n \in Cells(self))

\* C4's case: an interior tile, with all 8 neighbours.
C4_Witness ==
    /\ pc = "done"
    /\ call.op = "neighbours"
    /\ Proper(self)
    /\ InBounds(self, call.x, call.y)
    /\ Len(ret.coords) = 8

\* C5: for an out-of-range (x, y), x == width and y == height included,
\* neighbours returns the empty sequence.
C5_NeighboursOutOfRangeEmpty ==
    (/\ pc = "done"
     /\ call.op = "neighbours"
     /\ Proper(self)
     /\ ~InBounds(self, call.x, call.y))
    => ret.coords = << >>

\* C6: the text rendering of a proper grid has height lines of width
\* characters, each ended by a newline, and parsing it back yields the same
\* width and the same tiles (hence the same height).
C6_RoundTrip ==
    [][(/\ call'.op = "from"
        /\ Proper(self))
       => /\ Len(ret.text) = height(self) * (width + 1)
          /\ \A u \in Cells(self) :
                 ret.text[u[2] * (width + 1) + u[1] + 1] = tiles[Idx(self, u)]
          /\ \A k \in 1..height(self) : ret.text[k * (width + 1)] = NewLine
          /\ pc' = "done"
          /\ width' = width
          /\ tiles' = tiles]_vars

\* C7: calling fill(x, y, c) a second time in a row leaves the grid the
\* first call produced, for every start coordinate.
C7_FillIdempotent ==
    (/\ pc = "done"
     /\ call.op = "fill"
     /\ again
     /\ Proper(before))
    => tiles = orig

\* C7's case: the second of two fills in a row has returned, with an
\* in-bounds start, on a grid the fill did not cover entirely.
C7_Witness ==
    /\ FillReturned
    /\ again
    /\ pushes = 1
    /\ \E i \in 1..Len(tiles) : tiles[i] # call.c

\* C8: set on an in-bounds (x, y) returns true, a following get returns the
\* new character, and every other tile, the width and the height stay.
C8_SetInBounds ==
    [][(/\ call'.op = "set"
        /\ Proper(self)
        /\ InBounds(self, call'.x, call'.y))
       => /\ ret'.ok = TRUE
          /\ get(Grid(tiles', width'), call'.x, call'.y) = Some(call'.c)
          /\ tiles'[Idx(self, <<call'.x, call'.y>>)] = call'.c
          /\ \A i \in 1..Len(tiles) :
                 i # Idx(self, <<call'.x, call'.y>>) => tiles'[i] = tiles[i]
          /\ width' = width
          /\ Len(tiles') = Len(tiles)]_vars

\* C8's case: a set on an in-bounds coordinate has returned, on a grid that
\* holds other characters beside the new one.
C8_Witness ==
    /\ pc = "done"
    /\ call.op = "set"
    /\ Proper(self)
    /\ InBounds(self, call.x, call.y)
    /\ ret.ok = TRUE
    /\ \E i \in 1..Len(tiles) : tiles[i] # call.c

\* C9: on a grid built by filled_with(w, h, c) with w >= 1 and any h >= 0,
\* no later operation fails.
C9_NoOperationFails == pc # "panicked"

\* C10: the loop of fill terminates, and the pushes of one call, the first
\* included, number at most 8 * width * height.
C10_FillTerminatesBounded ==
    /\ []((call.op = "fill" /\ Proper(before))
            => pushes <= 8 * width * height(before))
    /\ ((pc = "fill" /\ Proper(before)) ~> (frontier = << >>))

\* C10's case: inside the loop, a coordinate is on the stack twice.
C10_Witness ==
    /\ pc = "fill"
    /\ Proper(before)
    /\ \E i, j \in 1..Len(frontier) : i # j /\ frontier[i] = frontier[j]

====
